---------------------------- MODULE Spec2Model ----------------------------
(***************************************************************************)
(* CPU2Music: name_processor.c (process_name, main) and trace_runner.sh.   *)
(*                                                                         *)
(* An unsigned int of the C program is 32 bits wide.  It is kept as a pair *)
(* <<hi, lo>> of 16-bit limbs (value = hi * 65536 + lo), so that every     *)
(* intermediate of the wrap-around arithmetic stays a small integer.       *)
(***************************************************************************)
EXTENDS Integers, Sequences, FiniteSets, TLC

(***************************************************************************)
(* Bounds of the model.                                                    *)
(***************************************************************************)
\* longest name passed to the program in Spec
MaxLen == 4
\* longest name the repeated-call driver passes in SpecRepeat
RepMaxLen == 2
\* longest generated base name of the single-byte-replacement run
AvMaxLen == 1

\* byte values names are built from: 'H' 'J' 'h' 'n' 'o' and one 8-bit byte
Bytes == {72, 74, 104, 110, 111, 200}
\* byte values of the repeated-call driver's names
RepBytes == {72, 74}

\* byte values of the generated base names of the single-byte-replacement run
AvBytes == {74, 104, 200}

\* "John"
John == <<74, 111, 104, 110>>

RECURSIVE SeqsUpTo(_, _)
SeqsUpTo(S, n) ==
    IF n = 0 THEN {<<>>}
    ELSE LET shorter == SeqsUpTo(S, n - 1)
         IN  shorter \cup {Append(s, b) : s \in {t \in shorter : Len(t) = n - 1}, b \in S}

Names == SeqsUpTo(Bytes, MaxLen)
RepNames == SeqsUpTo(RepBytes, RepMaxLen)
AvNames == (SeqsUpTo(AvBytes, AvMaxLen) \ {<<>>}) \cup {John}

(***************************************************************************)
(* 32-bit unsigned arithmetic on limbs.                                    *)
(***************************************************************************)
Limb == 2^16

\* the unsigned int that holds the non-negative int n (n < 2^31)
U32(n) == <<n \div Limb, n % Limb>>

\* conversion of an int operand to unsigned int: a negative int n becomes 2^32 + n
IntToU32(n) == IF n >= 0 THEN U32(n) ELSE <<Limb - 1 - ((-n - 1) \div Limb), Limb - 1 - ((-n - 1) % Limb)>>

\* a + b on unsigned int
AddU32(a, b) ==
    LET lo == a[2] + b[2]
    IN  <<(a[1] + b[1] + (lo \div Limb)) % Limb, lo % Limb>>

\* a << 5 on unsigned int
Shl5(a) ==
    LET lo == a[2] * 32
    IN  <<((a[1] * 32) + (lo \div Limb)) % Limb, lo % Limb>>

RECURSIVE XorBits(_, _)
XorBits(a, b) ==
    IF a = 0 THEN b
    ELSE IF b = 0 THEN a
    ELSE (((a % 2) + (b % 2)) % 2) + 2 * XorBits(a \div 2, b \div 2)

\* a ^ b on unsigned int
XorU32(a, b) == <<XorBits(a[1], b[1]), XorBits(a[2], b[2])>>

(***************************************************************************)
(* process_name: the expressions of its statements.                        *)
(***************************************************************************)
\* unsigned int hash = 5381;
HashInit == U32(5381)

\* the byte *str of a NUL-terminated string, str counted from 1
CharAt(s, k) == IF k <= Len(s) THEN s[k] ELSE 0

\* c = *str: a plain char read into an int.  Whether plain char is signed is
\* the build's choice (gcc: signed on x86, unsigned on ARM).
CharToInt(b, signed) == IF signed /\ b >= 128 THEN b - 256 ELSE b

\* hash = ((hash << 5) + hash) + c;
HashStepXor(h, cc) == XorU32(AddU32(Shl5(h), h), IntToU32(cc))
HashStep(h, cc) == AddU32(AddU32(Shl5(h), h), IntToU32(cc))

\* int char_counts[256] = {0};
KeepCounts(old) == old
InitCounts(old) == [b \in 0..255 |-> 0]

\* if (char_counts[i] > 0)
FoldGuardGe(cnt) == cnt >= 0
FoldGuard(cnt) == cnt > 0

\* result = result ^ (char_counts[i] * i);
FoldStepNoCount(r, cnt, b) == XorU32(r, IntToU32(b))
FoldStepShift(r, cnt, b) == XorU32(AddU32(r, r), IntToU32(cnt * b))
FoldStep(r, cnt, b) == XorU32(r, IntToU32(cnt * b))

\* lines 31-33: the body of the fold loop at byte value b
FoldVisit(r, counts, b) == IF FoldGuard(counts[b]) THEN FoldStep(r, counts[b], b) ELSE r

\* the next i >= from at which the body of the fold loop runs, or 256
FoldNext(counts, from) ==
    LET hit == {b \in from..255 : FoldGuard(counts[b])}
    IN  IF hit = {} THEN 256 ELSE CHOOSE b \in hit : \A d \in hit : b <= d

\* if (argc != 2)
ArgcBadLt(n) == n < 2
ArgcBad(n) == n # 2

VARIABLES
    charSigned,   \* the build: plain char is signed
    args,         \* argv[1..argc-1]
    pc,           \* position in the program
    name, str, c, hash, length, result, char_counts, i,  \* process_name's locals
    ret,          \* the value process_name returned
    exitStatus,   \* main's return value
    stdout,       \* lines printed
    calls,        \* calls of process_name
    nHash, nXor,  \* executions of line 16 and of line 32 in the current call
    prev,         \* repeated-call driver: an earlier call's <<name, hash, length, result>>
    base, baseResult, mpos, mbyte, changed, total,  \* single-byte-replacement driver
    sh_pc,        \* trace_runner.sh: position in the script
    sh_nargs,     \* $#
    fs,           \* files present in the working directory
    gccStatus,    \* $? after gcc
    ran,          \* external commands the script has run
    created,      \* files written by this run
    sh_out,       \* lines echoed
    sh_exit       \* exit status of the script

cvars == <<charSigned, args, pc, name, str, c, hash, length, result, char_counts, i,
           ret, exitStatus, stdout, calls, nHash, nXor>>

dvars == <<prev, base, baseResult, mpos, mbyte, changed, total>>

svars == <<sh_pc, sh_nargs, fs, gccStatus, ran, created, sh_out, sh_exit>>

vars == <<cvars, dvars, svars>>

argc == Len(args) + 1

ZeroCounts == [b \in 0..255 |-> 0]

CInit ==
    /\ charSigned \in BOOLEAN
    /\ str = 1 /\ c = 0 /\ hash = U32(0) /\ length = 0
    /\ result = U32(0) /\ char_counts = ZeroCounts /\ i = 0
    /\ ret = U32(0) /\ exitStatus = -1 /\ stdout = <<>> /\ calls = 0
    /\ nHash = 0 /\ nXor = 0

\* the drivers at rest
DIdle ==
    /\ prev = <<>>
    /\ base = <<>> /\ baseResult = U32(0) /\ mpos = 0 /\ mbyte = 0
    /\ changed = 0 /\ total = 0

\* the script not started
SIdle ==
    /\ sh_pc = "idle" /\ sh_nargs = 0 /\ fs = {} /\ gccStatus = 0
    /\ ran = <<>> /\ created = {} /\ sh_out = <<>> /\ sh_exit = -1

Init ==
    /\ CInit /\ DIdle /\ SIdle
    /\ name = <<>>
    /\ args \in {<<>>} \cup {<<n>> : n \in Names} \cup {<<n, m>> : n, m \in RepNames}
    /\ pc = "main"

\* lines 6-12: entry, printf, hash = 5381, str = name
PnEntry ==
    /\ pc = "pn_entry"
    /\ stdout' = Append(stdout, <<"Processing name", name>>)
    /\ hash' = HashInit
    /\ str' = 1
    /\ nHash' = 0 /\ nXor' = 0
    /\ pc' = "hash_loop"
    /\ UNCHANGED <<charSigned, args, name, c, length, result, char_counts, i, ret, exitStatus, calls, dvars, svars>>

\* lines 15-17: while ((c = *str++)) hash = ((hash << 5) + hash) + c;
HashLoop ==
    /\ pc = "hash_loop"
    /\ c' = CharToInt(CharAt(name, str), charSigned)
    /\ str' = str + 1
    /\ IF c' # 0
       THEN /\ hash' = HashStep(hash, c')
            /\ nHash' = nHash + 1
            /\ pc' = "hash_loop"
       ELSE /\ pc' = "strlen"
            /\ UNCHANGED <<hash, nHash>>
    /\ UNCHANGED <<charSigned, args, name, length, result, char_counts, i, ret, exitStatus, stdout, calls, nXor, dvars, svars>>

\* lines 20-25: length = strlen(name); result = hash; char_counts = {0}; i = 0
PnLocals ==
    /\ pc = "strlen"
    /\ length' = Len(name)
    /\ result' = hash
    /\ char_counts' = InitCounts(char_counts)
    /\ i' = 0
    /\ pc' = "count_loop"
    /\ UNCHANGED <<charSigned, args, name, str, c, hash, ret, exitStatus, stdout, calls, nHash, nXor, dvars, svars>>

\* lines 25-27, 30: for (i < length) char_counts[(unsigned char)name[i]]++;
CountLoop ==
    /\ pc = "count_loop"
    /\ IF i < length
       THEN /\ char_counts' = [char_counts EXCEPT ![name[i + 1]] = @ + 1]
            /\ i' = i + 1
            /\ pc' = "count_loop"
       ELSE /\ i' = 0
            /\ pc' = "fold_loop"
            /\ UNCHANGED char_counts
    /\ UNCHANGED <<charSigned, args, name, str, c, hash, length, result, ret, exitStatus, stdout, calls, nHash, nXor, dvars, svars>>

\* lines 30-34: for (i < 256) if (char_counts[i] > 0) result ^= char_counts[i] * i;
\* One step runs the iterations up to and including the next one whose guard
\* holds: an iteration whose guard fails changes nothing but i.
FoldLoop ==
    /\ pc = "fold_loop"
    /\ LET j == FoldNext(char_counts, i)
       IN  IF j < 256
           THEN /\ result' = FoldStep(result, char_counts[j], j)
                /\ nXor' = nXor + 1
                /\ i' = j + 1
                /\ pc' = "fold_loop"
           ELSE /\ i' = 256
                /\ pc' = "print"
                /\ UNCHANGED <<result, nXor>>
    /\ UNCHANGED <<charSigned, args, name, str, c, hash, length, char_counts, ret, exitStatus, stdout, calls, nHash, dvars, svars>>

\* lines 36-39: printf("Name: %s, Length: %d, Hash: %u, Result: %u\n"); return result;
PnReturn ==
    /\ pc = "print"
    /\ stdout' = Append(stdout, <<"Name", name, "Length", length, "Hash", hash, "Result", result>>)
    /\ ret' = result
    /\ pc' = "pn_ret"
    /\ UNCHANGED <<charSigned, args, name, str, c, hash, length, result, char_counts, i, exitStatus, calls, nHash, nXor, dvars, svars>>

ProcessName == PnEntry \/ HashLoop \/ PnLocals \/ CountLoop \/ FoldLoop \/ PnReturn

\* lines 43-47: wrong argument count: usage, return 1
MainUsage ==
    /\ pc = "main"
    /\ ArgcBad(argc)
    /\ stdout' = stdout \o <<<<"Usage">>, <<"Example">>>>
    /\ exitStatus' = 1
    /\ pc' = "exit"
    /\ UNCHANGED <<charSigned, args, name, str, c, hash, length, result, char_counts, i, ret, calls, nHash, nXor, dvars, svars>>

\* lines 49-55: name = argv[1]; three printf; call process_name(name)
MainCall ==
    /\ pc = "main"
    /\ ~ArgcBad(argc)
    /\ Len(args) >= 1
    /\ name' = args[1]
    /\ stdout' = stdout \o <<<<"=== CPU Instruction Tracing">>, <<"Name to process", args[1]>>, <<"Starting processing">>>>
    /\ calls' = calls + 1
    /\ pc' = "pn_entry"
    /\ UNCHANGED <<charSigned, args, str, c, hash, length, result, char_counts, i, ret, exitStatus, nHash, nXor, dvars, svars>>

\* lines 55-59: result = (returned value); printf; return 0
MainDone ==
    /\ pc = "pn_ret"
    /\ stdout' = Append(stdout, <<"Processing complete. Result", ret>>)
    /\ exitStatus' = 0
    /\ pc' = "exit"
    /\ UNCHANGED <<charSigned, args, name, str, c, hash, length, result, char_counts, i, ret, calls, nHash, nXor, dvars, svars>>

Next == ProcessName \/ MainUsage \/ MainCall \/ MainDone

Spec == Init /\ [][Next]_vars

(***************************************************************************)
(* Repeated calls of process_name in one process image: the locals of the  *)
(* earlier call are what the next call finds in memory.                    *)
(***************************************************************************)
InitRepeat ==
    /\ CInit /\ DIdle /\ SIdle
    /\ args = <<>>
    /\ name \in RepNames
    /\ pc = "pn_entry"

\* the driver reads the outcome, may keep it for comparison, and calls again
CallAgain ==
    /\ pc = "pn_ret"
    /\ \/ prev' = <<name, hash, length, ret>>
       \/ UNCHANGED prev
    /\ \E n \in RepNames : name' = n
    /\ stdout' = <<>>
    /\ pc' = "pn_entry"
    /\ UNCHANGED <<charSigned, args, str, c, hash, length, result, char_counts, i, ret, exitStatus, calls, nHash, nXor>>
    /\ UNCHANGED <<base, baseResult, mpos, mbyte, changed, total, svars>>

NextRepeat == ProcessName \/ CallAgain

SpecRepeat == InitRepeat /\ [][NextRepeat]_vars

(***************************************************************************)
(* Single-byte replacements of a base name: process_name runs on the base  *)
(* name, then on every name that differs from it in one position by        *)
(* another non-zero byte value, and the differing results are counted.     *)
(***************************************************************************)
\* s with the byte at position p replaced by b
Replace(s, p, b) == [s EXCEPT ![p] = b]

\* the replacements of s still to run after <<p, b>>, in order of position and value
ReplLeft(s, p, b) ==
    {q \in (p..Len(s)) \X (1..255) : /\ q[2] # s[q[1]]
                                     /\ \/ q[1] > p
                                        \/ q[1] = p /\ q[2] > b}

FirstRepl(S) == CHOOSE q \in S : \A r \in S : q[1] < r[1] \/ (q[1] = r[1] /\ q[2] <= r[2])

InitAvalanche ==
    /\ CInit /\ SIdle
    /\ args = <<>>
    /\ prev = <<>>
    /\ base \in AvNames
    /\ name = base
    /\ baseResult = U32(0) /\ mpos = 0 /\ mbyte = 0 /\ changed = 0 /\ total = 0
    /\ pc = "pn_entry"

\* the base name's result is in: start the replacements
AvBaseDone ==
    /\ pc = "pn_ret"
    /\ mpos = 0
    /\ baseResult' = ret
    /\ LET q == FirstRepl(ReplLeft(base, 1, 0))
       IN  mpos' = q[1] /\ mbyte' = q[2] /\ name' = Replace(base, q[1], q[2])
    /\ stdout' = <<>>
    /\ pc' = "pn_entry"
    /\ UNCHANGED <<charSigned, args, str, c, hash, length, result, char_counts, i, ret, exitStatus, calls, nHash, nXor>>
    /\ UNCHANGED <<prev, base, changed, total, svars>>

\* a replacement's result is in: count it, run the next one or stop
AvReplDone ==
    /\ pc = "pn_ret"
    /\ mpos > 0
    /\ total' = total + 1
    /\ changed' = IF ret # baseResult THEN changed + 1 ELSE changed
    /\ LET left == ReplLeft(base, mpos, mbyte)
       IN  IF left = {}
           THEN /\ pc' = "av_done"
                /\ UNCHANGED <<mpos, mbyte, name>>
           ELSE LET q == FirstRepl(left)
                IN  /\ mpos' = q[1] /\ mbyte' = q[2] /\ name' = Replace(base, q[1], q[2])
                    /\ pc' = "pn_entry"
    /\ stdout' = <<>>
    /\ UNCHANGED <<charSigned, args, str, c, hash, length, result, char_counts, i, ret, exitStatus, calls, nHash, nXor>>
    /\ UNCHANGED <<prev, base, baseResult, svars>>

NextAvalanche == ProcessName \/ AvBaseDone \/ AvReplDone

SpecAvalanche == InitAvalanche /\ [][NextAvalanche]_vars

(***************************************************************************)
(* trace_runner.sh                                                         *)
(***************************************************************************)
Files == {"name_processor", "gdb_script.txt", "cpu_trace.json", "instruction_trace.log"}

\* if [ $# -eq 0 ]
NoArgs(n) == n = 0

\* if [ $? -ne 0 ]
CompileFailedNever(status) == FALSE
CompileFailed(status) == status # 0

\* if [ -f "cpu_trace.json" ]
TraceFound(present, made) == "cpu_trace.json" \in present

InitScript ==
    /\ CInit /\ DIdle
    /\ args = <<>> /\ name = <<>> /\ pc = "idle"
    /\ sh_pc = "start"
    /\ sh_nargs \in 0..2
    /\ fs \in SUBSET Files
    /\ gccStatus = 0 /\ ran = <<>> /\ created = {} /\ sh_out = <<>> /\ sh_exit = -1

\* lines 5-13: banner; no argument: usage, exit 1
ShUsage ==
    /\ sh_pc = "start"
    /\ NoArgs(sh_nargs)
    /\ sh_out' = sh_out \o <<"=== CPU Instruction Tracer", "Usage", "Example">>
    /\ sh_exit' = 1
    /\ sh_pc' = "exit"
    /\ UNCHANGED <<cvars, dvars, sh_nargs, fs, gccStatus, ran, created>>

\* lines 5-20: banner; NAME="$1"; gcc -g -O0 -o name_processor name_processor.c
ShCompile ==
    /\ sh_pc = "start"
    /\ ~NoArgs(sh_nargs)
    /\ ran' = Append(ran, "gcc")
    /\ \/ /\ gccStatus' = 0
          /\ fs' = fs \cup {"name_processor"}
          /\ created' = created \cup {"name_processor"}
       \/ /\ gccStatus' = 1
          /\ UNCHANGED <<fs, created>>
    /\ sh_out' = sh_out \o <<"=== CPU Instruction Tracer", "Name to trace", "Compiling name processor...">>
    /\ sh_pc' = "compiled"
    /\ UNCHANGED <<cvars, dvars, sh_nargs, sh_exit>>

\* lines 21-24: compile failed: error, exit 1
ShCompileError ==
    /\ sh_pc = "compiled"
    /\ CompileFailed(gccStatus)
    /\ sh_out' = Append(sh_out, "Error: Failed to compile name_processor.c")
    /\ sh_exit' = 1
    /\ sh_pc' = "exit"
    /\ UNCHANGED <<cvars, dvars, sh_nargs, fs, gccStatus, ran, created>>

\* lines 26-41: cat > gdb_script.txt
ShWriteGdbScript ==
    /\ sh_pc = "compiled"
    /\ ~CompileFailed(gccStatus)
    /\ sh_out' = Append(sh_out, "Compilation successful!")
    /\ ran' = Append(ran, "cat > gdb_script.txt")
    /\ fs' = fs \cup {"gdb_script.txt"}
    /\ created' = created \cup {"gdb_script.txt"}
    /\ sh_pc' = "gdb"
    /\ UNCHANGED <<cvars, dvars, sh_nargs, gccStatus, sh_exit>>

\* lines 43-47: gdb -batch -x gdb_script.txt ./name_processor
\* What the session writes is up to gdb and the tracer it sources.
ShRunGdb ==
    /\ sh_pc = "gdb"
    /\ sh_out' = Append(sh_out, "Starting GDB tracing session...")
    /\ ran' = Append(ran, "gdb")
    /\ \E made \in SUBSET {"cpu_trace.json", "instruction_trace.log"} :
          /\ fs' = fs \cup made
          /\ created' = created \cup made
    /\ sh_pc' = "check"
    /\ UNCHANGED <<cvars, dvars, sh_nargs, gccStatus, sh_exit>>

\* lines 50-69: trace file present: summary
ShTraceComplete ==
    /\ sh_pc = "check"
    /\ TraceFound(fs, created)
    /\ sh_out' = sh_out \o <<"=== Trace Complete ===", "=== Trace Summary ===",
                             "=== Sample Instructions ===", "=== First Few Traced Instructions (JSON) ===">>
    /\ ran' = ran \o <<"grep cpu_trace.json", "head instruction_trace.log", "head cpu_trace.json">>
    /\ sh_pc' = "files"
    /\ UNCHANGED <<cvars, dvars, sh_nargs, fs, gccStatus, created, sh_exit>>

\* lines 70-73: no trace file: error, exit 1
ShTraceMissing ==
    /\ sh_pc = "check"
    /\ ~TraceFound(fs, created)
    /\ sh_out' = Append(sh_out, "Error: Trace file not created. Check for errors above.")
    /\ sh_exit' = 1
    /\ sh_pc' = "exit"
    /\ UNCHANGED <<cvars, dvars, sh_nargs, fs, gccStatus, ran, created>>

\* lines 75-83: the closing echoes; the script ends with the last echo's status
ShFilesCreated ==
    /\ sh_pc = "files"
    /\ sh_out' = Append(sh_out, "=== Files Created ===")
    /\ sh_exit' = 0
    /\ sh_pc' = "exit"
    /\ UNCHANGED <<cvars, dvars, sh_nargs, fs, gccStatus, ran, created>>

NextScript ==
    \/ ShUsage \/ ShCompile \/ ShCompileError \/ ShWriteGdbScript
    \/ ShRunGdb \/ ShTraceComplete \/ ShTraceMissing \/ ShFilesCreated

SpecScript == InitScript /\ [][NextScript]_vars

(***************************************************************************)
(* Properties.                                                             *)
(***************************************************************************)
InU32(x) == x[1] \in 0..(Limb - 1) /\ x[2] \in 0..(Limb - 1)

\* (33 * h + b) mod 2^32 for a byte value b in 0..255
Mul33AddMod(h, b) ==
    LET lo == (33 * h[2]) + b
    IN  <<((33 * h[1]) + (lo \div Limb)) % Limb, lo % Limb>>

\* C1: the accumulator starts at 5381, and every step of the hash loop on a
\* byte b of the name (7-bit or 128..255) sets hash to (33 * hash + b) mod 2^32,
\* b taken as the unsigned value 0..255; hash stays in 0..2^32-1.
C1_HashRecurrence ==
    [][/\ (pc = "pn_entry" => hash' = U32(5381))
       /\ (pc = "hash_loop" /\ CharAt(name, str) # 0 =>
              hash' = Mul33AddMod(hash, CharAt(name, str)) /\ InU32(hash'))]_vars

\* the number of positions of s that hold b
Occurrences(s, b) == Cardinality({k \in 1..Len(s) : s[k] = b})

\* r XORed with (count of b * b) mod 2^32 for every b of the set S
\* (the product of a count and a byte value is far below 2^31 here)
RECURSIVE XorTerms(_, _, _)
XorTerms(r, s, S) ==
    IF S = {} THEN r
    ELSE LET b == CHOOSE x \in S : TRUE
         IN  XorTerms(XorU32(r, U32(Occurrences(s, b) * b)), s, S \ {b})

BytesOf(s) == {s[k] : k \in 1..Len(s)}

\* C2: the returned value is the final hash XORed with (count[b] * b) mod 2^32
\* for exactly the byte values b that occur in the name; it is the printed
\* Result, Length is the number of bytes, and "John" gives 4, 2089257364,
\* 2089257399.
C2_ResultIsHashXorCounts ==
    pc = "pn_ret" =>
        /\ ret = XorTerms(hash, name, BytesOf(name))
        /\ stdout[Len(stdout)] = <<"Name", name, "Length", Len(name), "Hash", hash, "Result", ret>>
        /\ (name = John =>
               /\ length = 4
               /\ hash = U32(2089257364)
               /\ ret = U32(2089257399))

C2_Witness == pc = "pn_ret" /\ name = John /\ ret = U32(2089257399) /\ nXor = 4

\* C3: on the empty name no hash step and no XOR step runs, process_name
\* returns 5381 with hash 5381 and length 0, and the program given one empty
\* argument exits with status 0.
C3_EmptyName ==
    /\ (name = <<>> => nHash = 0 /\ nXor = 0)
    /\ (pc = "pn_ret" /\ name = <<>> => hash = U32(5381) /\ length = 0 /\ ret = U32(5381))
    /\ (pc = "exit" /\ args = <<<<>>>> =>
           exitStatus = 0 /\ nHash = 0 /\ nXor = 0 /\ ret = U32(5381))

C3_Witness == pc = "exit" /\ args = <<<<>>>> /\ exitStatus = 0 /\ ret = U32(5381)

\* C4: a call of process_name on the bytes of an earlier call yields that call's
\* hash, length and result, whatever ran in between; hash, length and the
\* frequency table start afresh in every call.
C4_Deterministic ==
    /\ (pc = "pn_ret" /\ prev # <<>> /\ prev[1] = name => prev = <<name, hash, length, ret>>)
    /\ (pc = "hash_loop" /\ str = 1 => hash = U32(5381))
    /\ (pc = "count_loop" /\ i = 0 => char_counts = ZeroCounts /\ length = Len(name))

C4_Witness ==
    pc = "pn_ret" /\ prev # <<>> /\ prev[1] = name /\ Len(name) > 0 /\ prev[4] = ret

\* C5: with zero or with two or more arguments the program prints the usage
\* line and exits 1 without calling process_name; with exactly one argument
\* it calls process_name once and exits 0.
C5_ArgumentCount ==
    /\ (argc # 2 => calls = 0)
    /\ calls <= 1
    /\ (pc = "exit" =>
           IF argc # 2
           THEN exitStatus = 1 /\ stdout = <<<<"Usage">>, <<"Example">>>>
           ELSE exitStatus = 0 /\ calls = 1)

C5_Witness == pc = "exit" /\ argc = 3 /\ exitStatus = 1 /\ calls = 0

\* C6: two different names never have the same result.
C6_UniqueFingerprint ==
    pc = "pn_ret" /\ prev # <<>> /\ prev[1] # name => prev[4] # ret

\* the byte values of S in ascending order
RECURSIVE Ascending(_)
Ascending(S) ==
    IF S = {} THEN <<>>
    ELSE LET m == CHOOSE x \in S : \A y \in S : x <= y
         IN  <<m>> \o Ascending(S \ {m})

\* the fold loop's body run at the byte values of order, first to last
RECURSIVE FoldInOrder(_, _, _)
FoldInOrder(r, counts, order) ==
    IF order = <<>> THEN r
    ELSE FoldInOrder(FoldVisit(r, counts, Head(order)), counts, Tail(order))

\* The orders in which a permutation of 0..255 can visit the byte values
\* that occur (the others leave result alone), each with a visit of two
\* byte values that do not occur.
FoldOrders(counts) ==
    LET S == {b \in 0..255 : counts[b] > 0}
        asc == Ascending(S)
    IN  {<<255>> \o [k \in 1..Len(asc) |-> p[asc[k]]] \o <<0>> : p \in Permutations(S)}

\* C7: folding the frequency table into the hash in any order of the byte
\* values gives the result of the ascending order process_name uses.
C7_FoldOrderIndependent ==
    pc = "pn_ret" => \A order \in FoldOrders(char_counts) : FoldInOrder(hash, char_counts, order) = ret

C7_Witness ==
    /\ pc = "pn_ret" /\ name = John
    /\ FoldInOrder(hash, char_counts, <<111, 74, 110, 104>>) = ret
    /\ Cardinality(FoldOrders(char_counts)) = 24

\* C8: of all replacements of one byte of a base name by another non-zero
\* byte value, more than half change the result.
C8_MostReplacementsChange ==
    pc = "av_done" => total = 254 * Len(base) /\ 2 * changed > total

C8_Witness == pc = "av_done" /\ base = John /\ 2 * changed > total /\ changed < total

InRan(cmd) == \E k \in 1..Len(ran) : ran[k] = cmd

Echoed(line) == \E k \in 1..Len(sh_out) : sh_out[k] = line

\* C9: with no argument the script prints usage and exits 1 before compiling;
\* when gcc fails it exits 1 and neither writes gdb_script.txt nor runs gdb;
\* gdb runs only after a successful compile of the same run.
C9_StepsGated ==
    /\ (sh_nargs = 0 => ran = <<>> /\ created = {})
    /\ (sh_nargs = 0 /\ sh_pc = "exit" => sh_exit = 1 /\ Echoed("Usage"))
    /\ (gccStatus # 0 => ~InRan("gdb") /\ ~InRan("cat > gdb_script.txt") /\ "gdb_script.txt" \notin created)
    /\ (gccStatus # 0 /\ sh_pc = "exit" => sh_exit = 1)
    /\ (InRan("gdb") => ran[1] = "gcc" /\ gccStatus = 0 /\ "name_processor" \in created)

C9_Witness == sh_pc = "exit" /\ gccStatus # 0 /\ sh_exit = 1 /\ ran = <<"gcc">>

\* C10: '=== Trace Complete ===' is printed only if this run's gdb session
\* created cpu_trace.json; when it did not, the script prints the error and
\* exits 1, also when an earlier run's cpu_trace.json is present.
C10_TraceFromThisRun ==
    /\ (Echoed("=== Trace Complete ===") => "cpu_trace.json" \in created)
    /\ (sh_pc = "exit" /\ InRan("gdb") /\ "cpu_trace.json" \notin created =>
           sh_exit = 1 /\ Echoed("Error: Trace file not created. Check for errors above."))

=============================================================================
